---- MODULE Spec2Model ----
(***************************************************************************)
(* Session state machine of the Saleor Telegram Mini App (App component).  *)
(*                                                                         *)
(* React state is modelled by one variable per useState cell.  The         *)
(* callbacks of the component are closures over the values of the last     *)
(* render, so the model keeps the rendered values in `rendered` and every  *)
(* callback reads what it closes over from there; setState calls write the *)
(* state cells; Render commits the state cells to a new set of closures.   *)
(* An async callback keeps the closure it was started with across its      *)
(* await, so an outstanding request records the captured values.           *)
(*                                                                         *)
(* Nullable values: the string "null" stands for a null string/identity,   *)
(* NullAmount for a null price amount.                                     *)
(***************************************************************************)
EXTENDS Integers, Sequences, FiniteSets, TLC

\* ---------------------------------------------------------------- bounds
MaxQty == 2
MaxInFlight == 2
MaxFetches == 2
MaxUnrendered == 2
\* Longest product list drawn for a catalog response.
MaxNodes == 2
\* Latest reading of the clock (Date.now()).
MaxClock == 2

\* ------------------------------------------------------------ null values
Null == "null"
NullAmount == 0 - 1

\* ------------------------------------------------- backend data (fixtures)
\* Stores returned by the StoreCollections query.
StoreIds == {"A", "B"}

NoPrice == [amount |-> NullAmount, currency |-> Null]
NoCategory == [id |-> Null, name |-> <<>>]

\* Category display names as sequences of character codes.
\* "apple" / "Banana" / "Menu"
NameApple == <<97, 112>>
NameBanana == <<66, 97>>
NameMenu == <<77, 101>>

\* Product nodes returned by the CollectionProducts query, per store, in
\* backend order.  Store A: a purchasable product whose first variant is
\* priced, and a product with a price range but no variants.  Store B: a
\* product without category whose only variant is unpriced.
Nodes(store) ==
  IF store = "A" THEN
    << [id |-> "p1", category |-> [id |-> "c2", name |-> NameBanana],
        priceRange |-> NoPrice,
        variants |-> << [id |-> "v1", price |-> [amount |-> 5, currency |-> "USD"]],
                        [id |-> "v1b", price |-> [amount |-> 7, currency |-> "USD"]] >>],
       [id |-> "p2", category |-> [id |-> "c1", name |-> NameApple],
        priceRange |-> [amount |-> 3, currency |-> "EUR"],
        variants |-> << >>] >>
  ELSE
    << [id |-> "p3", category |-> NoCategory,
        priceRange |-> NoPrice,
        variants |-> << [id |-> "v3", price |-> NoPrice] >>] >>

\* Product nodes a response may hold: with a category of either name or
\* without one; with a first variant that is out of stock and priced, with
\* a first variant that is unpriced before a priced one, or without
\* variants; with or without a starting price range.
NodeCategories ==
  { [id |-> "c1", name |-> NameApple], [id |-> "c2", name |-> NameBanana], NoCategory }

NodeVariants ==
  { << [id |-> "va", stock |-> 0, price |-> [amount |-> 5, currency |-> "USD"]],
       [id |-> "vb", stock |-> 3, price |-> [amount |-> 7, currency |-> "USD"]] >>,
    << [id |-> "va", stock |-> 3, price |-> NoPrice],
       [id |-> "vb", stock |-> 3, price |-> [amount |-> 7, currency |-> "USD"]] >>,
    << >> }

NodePriceRanges == { NoPrice, [amount |-> 3, currency |-> "EUR"] }

NodeShapes ==
  [category : NodeCategories, variants : NodeVariants, priceRange : NodePriceRanges]

NodeId(i) == <<"p1", "p2", "p3", "p4">>[i]

\* Every response of at most MaxNodes products, identified by position.
NodeLists ==
  UNION { { [i \in 1..n |-> [id |-> NodeId(i), category |-> f[i].category,
                             priceRange |-> f[i].priceRange,
                             variants |-> f[i].variants]] :
            f \in [1..n -> NodeShapes] } : n \in 0..MaxNodes }

\* ------------------------------------------------------ catalog mapping
\* loadStoreProducts: first variant, its price or else the price range.
SelectedVariantId(node) ==
  IF Len(node.variants) > 0 THEN node.variants[1].id ELSE Null

\* Variant of ResolvedPrice that takes the price of the first priced
\* variant.
ResolvedPriceFirstPriced(node) ==
  IF \E i \in 1..Len(node.variants) : node.variants[i].price # NoPrice
  THEN node.variants[CHOOSE i \in 1..Len(node.variants) :
                       /\ node.variants[i].price # NoPrice
                       /\ \A j \in 1..(i - 1) : node.variants[j].price = NoPrice].price
  ELSE node.priceRange

\* price: the gross price of the first variant, or else the gross start
\* of the price range, or else null.
ResolvedPrice(node) ==
  IF Len(node.variants) > 0 /\ node.variants[1].price # NoPrice
  THEN node.variants[1].price
  ELSE node.priceRange

ToProduct(node) ==
  [id |-> node.id,
   variantId |-> SelectedVariantId(node),
   priceAmount |-> ResolvedPrice(node).amount,
   priceCurrency |-> ResolvedPrice(node).currency]

\* Variant of CategoryIdOf that gives a node without category a bucket of
\* its own.
CategoryIdOfOwnBucket(node) ==
  IF node.category.id # Null THEN node.category.id ELSE <<"uncategorized", node.id>>

\* categoryId: node.category?.id || "uncategorized"
CategoryIdOf(node) ==
  IF node.category.id # Null THEN node.category.id ELSE "uncategorized"

CategoryNameOf(node) ==
  IF node.category.id # Null THEN node.category.name ELSE NameMenu

\* Index of the category with identity cid in the sequence cats, 0 if none.
CategoryIndex(cats, cid) ==
  IF \E i \in 1..Len(cats) : cats[i].id = cid
  THEN CHOOSE i \in 1..Len(cats) : cats[i].id = cid
  ELSE 0

\* byCategory after the forEach over the first n edges; a JS Map keeps its
\* keys in insertion order, so the map is a sequence of Category records.
RECURSIVE GroupByCategory(_, _)
GroupByCategory(nodes, n) ==
  IF n = 0 THEN << >>
  ELSE LET prev == GroupByCategory(nodes, n - 1)
           node == nodes[n]
           cid == CategoryIdOf(node)
           withCat == IF CategoryIndex(prev, cid) = 0
                      THEN Append(prev, [id |-> cid, name |-> CategoryNameOf(node),
                                         products |-> << >>])
                      ELSE prev
           k == CategoryIndex(withCat, cid)
       IN [withCat EXCEPT ![k].products = Append(@, ToProduct(node))]

CatalogOfNodes(nodes) == GroupByCategory(nodes, Len(nodes))

\* Variant of FoldCase that keeps the case of the character.
FoldCaseSensitive(c) == IF c \in 65..90 THEN c ELSE c

\* localeCompare(..., { sensitivity: "base" }): case is ignored.
FoldCase(c) == IF c \in 65..90 THEN c + 32 ELSE c

RECURSIVE NameLess(_, _)
NameLess(a, b) ==
  IF Len(b) = 0 THEN FALSE
  ELSE IF Len(a) = 0 THEN TRUE
  ELSE IF FoldCase(Head(a)) # FoldCase(Head(b)) THEN FoldCase(Head(a)) < FoldCase(Head(b))
  ELSE NameLess(Tail(a), Tail(b))

\* Array.from(byCategory.values()).sort(...)[0]?.id || null; the sort is
\* stable, so among equal names the earliest inserted category is first.
FirstCategoryId(cats) ==
  IF Len(cats) = 0 THEN Null
  ELSE LET i == CHOOSE i \in 1..Len(cats) :
                  /\ \A j \in 1..Len(cats) : ~NameLess(cats[j].name, cats[i].name)
                  /\ \A j \in 1..(i - 1) : NameLess(cats[i].name, cats[j].name)
       IN cats[i].id

\* Every product snapshot the product grid can hand to updateCart.
RECURSIVE SeqToSet(_)
SeqToSet(s) == IF Len(s) = 0 THEN {} ELSE {Head(s)} \cup SeqToSet(Tail(s))

Products == UNION { { ToProduct(n) : n \in SeqToSet(Nodes(s)) } : s \in StoreIds }

Purchasable(product) ==
  product.variantId # Null /\ product.priceAmount # NullAmount

\* --------------------------------------------------------------- cart
\* Map<string, CartEntry> in insertion order.
EntryIndex(c, pid) ==
  IF \E i \in 1..Len(c) : c[i].product.id = pid
  THEN CHOOSE i \in 1..Len(c) : c[i].product.id = pid
  ELSE 0

RemoveAt(c, k) == [i \in 1..(Len(c) - 1) |-> IF i < k THEN c[i] ELSE c[i + 1]]

\* next.delete(product.id)
MapDelete(c, pid) ==
  IF EntryIndex(c, pid) = 0 THEN c ELSE RemoveAt(c, EntryIndex(c, pid))

\* Variant of MapSet that keeps the product snapshot of an existing entry.
MapSetKeepSnapshot(c, product, quantity) ==
  IF EntryIndex(c, product.id) = 0
  THEN Append(c, [product |-> product, quantity |-> quantity])
  ELSE [c EXCEPT ![EntryIndex(c, product.id)].quantity = quantity]

\* next.set(product.id, { product, quantity })
MapSet(c, product, quantity) ==
  IF EntryIndex(c, product.id) = 0
  THEN Append(c, [product |-> product, quantity |-> quantity])
  ELSE [c EXCEPT ![EntryIndex(c, product.id)] =
          [product |-> product, quantity |-> quantity]]

\* Variant of CartAfterUpdate that deletes only for negative quantities.
CartAfterUpdateKeepZero(prev, product, nextQuantity) ==
  IF nextQuantity < 0
  THEN MapDelete(prev, product.id)
  ELSE MapSet(prev, product, nextQuantity)

\* The updater passed to setCart in updateCart.
CartAfterUpdate(prev, product, nextQuantity) ==
  IF nextQuantity <= 0
  THEN MapDelete(prev, product.id)
  ELSE MapSet(prev, product, nextQuantity)

\* Variant of SummarizeUpTo that counts entries without a price as well.
RECURSIVE SummarizeUpToAnyPrice(_, _, _)
SummarizeUpToAnyPrice(c, cur, n) ==
  IF n = 0 THEN [items |-> 0, amount |-> 0, nextCurrency |-> cur]
  ELSE LET acc == SummarizeUpToAnyPrice(c, cur, n - 1)
           e == c[n]
       IN [items |-> acc.items + e.quantity,
           amount |-> acc.amount + e.product.priceAmount * e.quantity,
           nextCurrency |-> IF e.product.priceCurrency # Null
                            THEN e.product.priceCurrency
                            ELSE acc.nextCurrency]

\* summarizeCart's loop over the first n entries of cart c, started with
\* the currency cur of the closure.
RECURSIVE SummarizeUpTo(_, _, _)
SummarizeUpTo(c, cur, n) ==
  IF n = 0 THEN [items |-> 0, amount |-> 0, nextCurrency |-> cur]
  ELSE LET acc == SummarizeUpTo(c, cur, n - 1)
           e == c[n]
       IN IF e.product.priceAmount # NullAmount
          THEN [items |-> acc.items + e.quantity,
                amount |-> acc.amount + e.product.priceAmount * e.quantity,
                nextCurrency |-> IF e.product.priceCurrency # Null
                                 THEN e.product.priceCurrency
                                 ELSE acc.nextCurrency]
          ELSE acc

SummarizeCart(c, cur) ==
  LET acc == SummarizeUpTo(c, cur, Len(c))
  IN [items |-> acc.items,
      total |-> [amount |-> acc.amount,
                 currency |-> IF acc.nextCurrency # Null THEN acc.nextCurrency ELSE "USD"]]

\* Variant of OrderLines that adds a line for every entry.
RECURSIVE OrderLinesOfEveryEntry(_)
OrderLinesOfEveryEntry(c) ==
  IF Len(c) = 0 THEN << >>
  ELSE LET e == Head(c)
       IN <<[quantity |-> e.quantity, variantId |-> e.product.variantId]>>
            \o OrderLinesOfEveryEntry(Tail(c))

\* The order lines submitOrder builds from the cart of its closure.
RECURSIVE OrderLines(_)
OrderLines(c) ==
  IF Len(c) = 0 THEN << >>
  ELSE LET e == Head(c)
       IN IF e.product.variantId # Null /\ e.product.priceAmount # NullAmount
          THEN <<[quantity |-> e.quantity, variantId |-> e.product.variantId]>>
                 \o OrderLines(Tail(c))
          ELSE OrderLines(Tail(c))

\* ------------------------------------------------------------ messages
\* A toast message is <<text, detail>>.
NoMessage == <<"", "">>
LoadingStores == "Loading stores..."
StoresLoaded == ""
NoActiveStores == "No active stores were found in this Saleor channel."
UnableToLoadStores == "Unable to load stores. Pull to refresh or try again later."
DefaultProductEmpty == "This category has no products right now. Try another one."
UnableProductEmpty == "Unable to load products. Swipe down to retry."
NothingToSubmit == <<"Nothing to submit. Add items first.", "">>
OrderCreated == <<"Order draft created. Continue in Saleor to finalize.", "">>
SubmissionFailed(m) ==
  <<"Order submission failed: ", IF m = "" THEN "Unknown error" ELSE m>>
LoadProductsFailed(m) ==
  <<IF m = "" THEN "Unable to load products for this store." ELSE m, "">>
AboutStore == <<"We could not find extra info about this store yet.", "">>

\* error.message of an Error thrown by graphQLRequest or by a navigation call
ErrorMessages == {"API request failed (500)", ""}
\* joined message/code of a non-empty checkoutCreate.errors list
CheckoutErrorMessages == {"Insufficient stock", ""}
CheckoutError(m) == IF m = "" THEN "Saleor returned an error." ELSE m

\* ----------------------------------------------------------- host chrome
\* formatMoney for the whole amounts of the catalog: the integer part, the
\* two fraction digits and the currency of the label.
FormatMoney(amount, cur) == <<amount, 0, cur>>

\* `Review order · ${formatMoney(total.amount, total.currency)}`
ReviewOrderLabel(total) == <<"Review order", FormatMoney(total.amount, total.currency)>>

\* The text of the main button before the app has set one.
NoLabel == <<"", <<0, 0, "">>>>

\* Variant of SyncMainButton that hides the button only for a cart
\* without entries.
SyncMainButtonByEntries(button, c, cur) ==
  LET summary == SummarizeCart(c, cur)
  IN IF Len(c) = 0
     THEN [button EXCEPT !.isVisible = FALSE]
     ELSE [text |-> ReviewOrderLabel(summary.total),
           isVisible |-> TRUE, isEnabled |-> TRUE]

\* syncMainButton inside the host, applied to the button state.
SyncMainButton(button, c, cur) ==
  LET summary == SummarizeCart(c, cur)
  IN IF summary.items = 0
     THEN [button EXCEPT !.isVisible = FALSE]
     ELSE [text |-> ReviewOrderLabel(summary.total),
           isVisible |-> TRUE, isEnabled |-> TRUE]

\* Variant of BackButtonShouldShow that looks at the selected store only.
BackButtonShouldShowForStore(store, sheetVisible) == store # Null

\* shouldShow of the back-button effect.
BackButtonShouldShow(store, sheetVisible) == store # Null \/ sheetVisible

\* ------------------------------------------------------ host launch data
\* launchParams?.tgWebAppData?.user || null when the host gives no user.
NoUser == [id |-> 0, username |-> Null]

\* The user info the host may give: id 0 stands for a missing or zero id,
\* username "" for a missing or empty username (the code tests both for
\* truthiness only).
Users == { [id |-> i, username |-> u] : i \in {0, 7}, u \in {"", "ann"} }

\* The values of useRawInitData(): none, or the launch query string.
InitDatas == {Null, "query_id=1"}

\* Variant of AuthHeader that builds the header from whatever it is given.
AuthHeaderAlways(raw) == "tma " \o raw

\* authHeader: rawInitData ? `tma ${rawInitData}` : null
AuthHeader(raw) == IF raw # Null THEN "tma " \o raw ELSE Null

\* The headers graphQLRequest sends; Authorization Null is a request
\* without that header.
RequestHeaders(raw) ==
  [ContentType |-> "application/json", Authorization |-> AuthHeader(raw)]

\* String(userData.id).replace(/\D+/g, ""): the decimal digits of the id.
SafeId(id) == ToString(IF id < 0 THEN 0 - id ELSE id)

\* buildPseudoEmail, with the reading of Date.now() it is evaluated at.
BuildPseudoEmail(userData, t) ==
  IF userData = NoUser
  THEN "guest+" \o ToString(t) \o "@telegram.local"
  ELSE IF userData.username # ""
  THEN userData.username \o "@telegram.local"
  ELSE "user" \o (IF userData.id # 0 THEN SafeId(userData.id) ELSE ToString(t))
              \o "@telegram.local"

\* ------------------------------------------------------------ state
VARIABLES
  isTelegram,          \* isTMA(), fixed at mount
  telegramUser,        \* launchParams.tgWebAppData.user, or NoUser
  rawInitData,         \* useRawInitData(), or Null
  now,                 \* the reading of Date.now()
  backend,             \* the product nodes the backend returns per store
  selectedStore,       \* id of the selected store, or Null
  selectedCategoryId,
  productsByCategory,
  productEmptyMessage,
  cart,
  currency,
  orderSheetVisible,
  isSubmitting,
  toast,               \* [message, visible]
  stores,              \* ids of the stores of the store grid, in backend order
  storeEmptyMessage,
  storesFetch,         \* outstanding StoreCollections requests
  mainButton,          \* the host's main button: [text, isVisible, isEnabled]
  backButton,          \* whether the host's back button is shown
  toastTimerRef,       \* "none", "pending" (a live timeout id) or "fired"
  pendingTimers,       \* number of timeouts set and neither fired nor cleared
  rendered,            \* the state values the current callbacks close over
  unrendered,          \* callbacks run since the last render
  fetches,             \* outstanding CollectionProducts requests per store
  submits,             \* outstanding checkoutCreate requests with their closures
  lastOp               \* the callback that ran last and what it was given

stateVars == <<selectedStore, selectedCategoryId, productsByCategory,
               productEmptyMessage, cart, currency, orderSheetVisible, isSubmitting>>
toastVars == <<toast, toastTimerRef, pendingTimers>>
chromeVars == <<mainButton, backButton>>
storeListVars == <<stores, storeEmptyMessage, storesFetch>>
hostVars == <<telegramUser, rawInitData, now>>
vars == <<isTelegram, hostVars, backend, stateVars, toastVars, chromeVars, storeListVars, rendered, unrendered, fetches,
          submits, lastOp>>

Snapshot ==
  [cart |-> cart, currency |-> currency, orderSheetVisible |-> orderSheetVisible,
   isSubmitting |-> isSubmitting, selectedStore |-> selectedStore,
   productsByCategory |-> productsByCategory]

Op(name, arg) == [op |-> name, arg |-> arg, n |-> 0]

\* A callback that called graphQLRequest, with the headers of the request.
Sent(name, arg) ==
  [op |-> name, arg |-> arg, n |-> 0, headers |-> RequestHeaders(rawInitData)]

\* The catalog loadStoreProducts builds from the response for the store.
CatalogOf(store) == CatalogOfNodes(backend[store])

\* The state of the App after its first render and mount effects.
InitSession ==
  /\ isTelegram \in BOOLEAN
  /\ selectedStore = Null
  /\ selectedCategoryId = Null
  /\ productsByCategory = << >>
  /\ productEmptyMessage = DefaultProductEmpty
  /\ cart = << >>
  /\ currency = Null
  /\ orderSheetVisible = FALSE
  /\ isSubmitting = FALSE
  /\ toast = [message |-> NoMessage, visible |-> FALSE]
  /\ mainButton \in { [text |-> NoLabel, isVisible |-> FALSE, isEnabled |-> e] :
                        e \in BOOLEAN }
  /\ backButton = FALSE
  /\ toastTimerRef = "none"
  /\ pendingTimers = 0
  /\ rendered = [cart |-> << >>, currency |-> Null, orderSheetVisible |-> FALSE,
                 isSubmitting |-> FALSE, selectedStore |-> Null,
                 productsByCategory |-> << >>]
  /\ unrendered = 0
  /\ stores = << >>
  /\ storeEmptyMessage = LoadingStores
  /\ storesFetch = 1
  /\ fetches = [s \in StoreIds |-> 0]
  /\ submits = << >>
  /\ lastOp = Sent("mount", "")

\* The launch data of the fixtures: a user with id and username, and init
\* data.
InitLaunch ==
  /\ telegramUser = [id |-> 7, username |-> "ann"]
  /\ rawInitData = "query_id=1"
  /\ now = 1

Init ==
  /\ InitLaunch
  /\ InitSession
  /\ backend = [s \in StoreIds |-> Nodes(s)]

\* --------------------------------------------------------- notification
ToastChannel == [toast |-> toast, ref |-> toastTimerRef, timers |-> pendingTimers]

\* Variant of ShowToast that sets the new timeout without clearing the one
\* the ref names.
ShowToastNoClear(ch, message) ==
  [toast |-> [message |-> message, visible |-> TRUE],
   ref |-> "pending",
   timers |-> ch.timers + 1]

\* showToast: replace the message, clear the timeout the ref names, set one.
ShowToast(ch, message) ==
  [toast |-> [message |-> message, visible |-> TRUE],
   ref |-> "pending",
   timers |-> (IF ch.ref = "pending" THEN ch.timers - 1 ELSE ch.timers) + 1]

SetToastChannel(ch) ==
  /\ toast' = ch.toast
  /\ toastTimerRef' = ch.ref
  /\ pendingTimers' = ch.timers

\* The timeouts that are pending and are not the one the ref names.
EarlierTimers == pendingTimers - (IF toastTimerRef = "pending" THEN 1 ELSE 0)

\* Variant of ToastExpire whose timeout callback leaves the message as it
\* is.
ToastExpireKeepVisible ==
  /\ \E timer \in {"referenced", "earlier"} :
       /\ timer = "referenced" => toastTimerRef = "pending"
       /\ timer = "earlier" => EarlierTimers > 0
       /\ toastTimerRef' = IF timer = "referenced" THEN "fired" ELSE toastTimerRef
       /\ lastOp' = Op("toastExpire", timer)
  /\ toast' = toast
  /\ pendingTimers' = pendingTimers - 1
  /\ unrendered' = unrendered
  /\ UNCHANGED <<isTelegram, hostVars, backend, chromeVars, storeListVars, stateVars, rendered, fetches, submits>>

\* The timeout callback of showToast, run by the timeout the ref names or
\* by one set by an earlier showToast and never cleared.
ToastExpire ==
  /\ \E timer \in {"referenced", "earlier"} :
       /\ timer = "referenced" => toastTimerRef = "pending"
       /\ timer = "earlier" => EarlierTimers > 0
       /\ toastTimerRef' = IF timer = "referenced" THEN "fired" ELSE toastTimerRef
       /\ lastOp' = Op("toastExpire", timer)
  /\ toast' = [toast EXCEPT !.visible = FALSE]
  /\ pendingTimers' = pendingTimers - 1
  /\ unrendered' = unrendered
  /\ UNCHANGED <<isTelegram, hostVars, backend, chromeVars, storeListVars, stateVars, rendered, fetches, submits>>

\* One more callback runs on the closures of the last render.
Step == /\ unrendered < MaxUnrendered
        /\ unrendered' = unrendered + 1

\* Variant of Render whose main-button effect does not test isTelegram.
RenderSyncingAnywhere ==
  /\ rendered # Snapshot \/ unrendered > 0
  /\ rendered' = Snapshot
  /\ unrendered' = 0
  /\ mainButton' = SyncMainButton(mainButton, cart, currency)
  /\ backButton' = IF isTelegram
                   THEN BackButtonShouldShow(selectedStore, orderSheetVisible)
                   ELSE backButton
  /\ lastOp' = Op("render", "")
  /\ UNCHANGED <<isTelegram, hostVars, backend, storeListVars, stateVars, toastVars, fetches, submits>>

\* React re-renders: new closures over the current state, and the effects
\* that sync the host buttons.
Render ==
  /\ rendered # Snapshot \/ unrendered > 0
  /\ rendered' = Snapshot
  /\ unrendered' = 0
  /\ mainButton' = IF isTelegram
                   THEN SyncMainButton(mainButton, cart, currency)
                   ELSE mainButton
  /\ backButton' = IF isTelegram
                   THEN BackButtonShouldShow(selectedStore, orderSheetVisible)
                   ELSE backButton
  /\ lastOp' = Op("render", "")
  /\ UNCHANGED <<isTelegram, hostVars, backend, storeListVars, stateVars, toastVars, fetches, submits>>

\* ------------------------------------------------------------- cart ops
Quantities == (0 - 1)..MaxQty

UpdateCart(product, nextQuantity) ==
  /\ Step
  /\ cart' = CartAfterUpdate(cart, product, nextQuantity)
  /\ currency' = IF product.priceCurrency # Null THEN product.priceCurrency ELSE currency
  /\ lastOp' = [op |-> "updateCart", arg |-> product.id, n |-> nextQuantity,
                product |-> product]
  /\ UNCHANGED <<isTelegram, hostVars, backend, chromeVars, storeListVars, selectedStore, selectedCategoryId, productsByCategory,
                 productEmptyMessage, orderSheetVisible, isSubmitting, toastVars,
                 rendered, fetches, submits>>


\* Variant of ResetCart that leaves the inferred currency in place.
ResetCartKeepCurrency ==
  /\ cart' = << >>
  /\ currency' = currency

ResetCart ==
  /\ cart' = << >>
  /\ currency' = Null

\* ----------------------------------------------------------- store list
\* The store lists the backend may return for the channel.
StoreLists == {<< >>, <<"A">>, <<"A", "B">>}

\* Variant of LoadStoresDone that clears the message for every result.
LoadStoresDoneClearing(nextStores) ==
  /\ storesFetch > 0
  /\ Step
  /\ storesFetch' = storesFetch - 1
  /\ stores' = nextStores
  /\ storeEmptyMessage' = StoresLoaded
  /\ lastOp' = [op |-> "loadStoresDone", arg |-> "", n |-> Len(nextStores)]
  /\ UNCHANGED <<isTelegram, hostVars, backend, chromeVars, stateVars, toastVars, rendered, fetches, submits>>

\* loadStores resumes with the collections of the channel.
LoadStoresDone(nextStores) ==
  /\ storesFetch > 0
  /\ Step
  /\ storesFetch' = storesFetch - 1
  /\ stores' = nextStores
  /\ storeEmptyMessage' = IF Len(nextStores) = 0 THEN NoActiveStores ELSE StoresLoaded
  /\ lastOp' = [op |-> "loadStoresDone", arg |-> "", n |-> Len(nextStores)]
  /\ UNCHANGED <<isTelegram, hostVars, backend, chromeVars, stateVars, toastVars, rendered, fetches, submits>>

\* The request of loadStores threw: the catch of the mount effect.
LoadStoresFailed ==
  /\ storesFetch > 0
  /\ Step
  /\ storesFetch' = storesFetch - 1
  /\ storeEmptyMessage' = UnableToLoadStores
  /\ lastOp' = Op("loadStoresFailed", "")
  /\ UNCHANGED <<isTelegram, hostVars, backend, chromeVars, stores, stateVars, toastVars, rendered,
                 fetches, submits>>

\* ------------------------------------------------------ store selection
TotalFetches == fetches["A"] + fetches["B"]

SelectStore(store) ==
  /\ Step
  /\ TotalFetches < MaxFetches
  /\ selectedStore' = store
  /\ ResetCart
  /\ productEmptyMessage' = DefaultProductEmpty
  /\ fetches' = [fetches EXCEPT ![store] = @ + 1]
  /\ lastOp' = Sent("selectStore", store)
  /\ UNCHANGED <<isTelegram, hostVars, backend, chromeVars, storeListVars, selectedCategoryId, productsByCategory,
                 orderSheetVisible, isSubmitting, toastVars, rendered, submits>>

\* Variant of LoadStoreProductsDone that replaces the catalog and keeps the
\* active category.
LoadStoreProductsDoneKeepCategory(store) ==
  /\ fetches[store] > 0
  /\ Step
  /\ fetches' = [fetches EXCEPT ![store] = @ - 1]
  /\ productsByCategory' = CatalogOf(store)
  /\ selectedCategoryId' = selectedCategoryId
  /\ lastOp' = Op("loadStoreProductsDone", store)
  /\ UNCHANGED <<isTelegram, hostVars, backend, chromeVars, storeListVars, selectedStore, productEmptyMessage, cart, currency,
                 orderSheetVisible, isSubmitting, toastVars, rendered, submits>>

\* loadStoreProducts resumes after its request resolved.
LoadStoreProductsDone(store) ==
  /\ fetches[store] > 0
  /\ Step
  /\ fetches' = [fetches EXCEPT ![store] = @ - 1]
  /\ productsByCategory' = CatalogOf(store)
  /\ selectedCategoryId' = FirstCategoryId(CatalogOf(store))
  /\ lastOp' = Op("loadStoreProductsDone", store)
  /\ UNCHANGED <<isTelegram, hostVars, backend, chromeVars, storeListVars, selectedStore, productEmptyMessage, cart, currency,
                 orderSheetVisible, isSubmitting, toastVars, rendered, submits>>

\* Variant of LoadStoreProductsFailed that keeps the catalog on display.
LoadStoreProductsFailedKeepCatalog(store, message) ==
  /\ fetches[store] > 0
  /\ Step
  /\ fetches' = [fetches EXCEPT ![store] = @ - 1]
  /\ SetToastChannel(ShowToast(ToastChannel, LoadProductsFailed(message)))
  /\ productsByCategory' = productsByCategory
  /\ selectedCategoryId' = selectedCategoryId
  /\ productEmptyMessage' = UnableProductEmpty
  /\ lastOp' = Op("loadStoreProductsFailed", store)
  /\ UNCHANGED <<isTelegram, hostVars, backend, chromeVars, storeListVars, selectedStore, cart, currency, orderSheetVisible,
                 isSubmitting, rendered, submits>>

\* The request of loadStoreProducts threw: the catch block of selectStore.
LoadStoreProductsFailed(store, message) ==
  /\ fetches[store] > 0
  /\ Step
  /\ fetches' = [fetches EXCEPT ![store] = @ - 1]
  /\ SetToastChannel(ShowToast(ToastChannel, LoadProductsFailed(message)))
  /\ productsByCategory' = << >>
  /\ selectedCategoryId' = Null
  /\ productEmptyMessage' = UnableProductEmpty
  /\ lastOp' = Op("loadStoreProductsFailed", store)
  /\ UNCHANGED <<isTelegram, hostVars, backend, chromeVars, storeListVars, selectedStore, cart, currency, orderSheetVisible,
                 isSubmitting, rendered, submits>>

\* Variant of ExitStoreViewEffect that keeps the active category.
ExitStoreViewEffectKeepCategory ==
  /\ selectedStore' = Null
  /\ selectedCategoryId' = selectedCategoryId
  /\ productsByCategory' = << >>
  /\ ResetCart

\* The state updates of exitStoreView.
ExitStoreViewEffect ==
  /\ selectedStore' = Null
  /\ selectedCategoryId' = Null
  /\ productsByCategory' = << >>
  /\ ResetCart

ExitStoreView ==
  /\ Step
  /\ ExitStoreViewEffect
  /\ lastOp' = Op("exitStoreView", "")
  /\ UNCHANGED <<isTelegram, hostVars, backend, chromeVars, storeListVars, productEmptyMessage, orderSheetVisible, isSubmitting,
                 toastVars, rendered, fetches, submits>>

\* A category tab of the rendered catalog is clicked.
SelectCategory(i) ==
  /\ i \in 1..Len(rendered.productsByCategory)
  /\ Step
  /\ selectedCategoryId' = rendered.productsByCategory[i].id
  /\ lastOp' = Op("selectCategory", rendered.productsByCategory[i].id)
  /\ UNCHANGED <<isTelegram, hostVars, backend, chromeVars, storeListVars, selectedStore, productsByCategory, productEmptyMessage,
                 cart, currency, orderSheetVisible, isSubmitting, toastVars,
                 rendered, fetches, submits>>

\* ------------------------------------------------------------ order sheet
\* openOrderSheet / closeOrderSheet of a closure that saw visibility `seen`.
AfterOpenOrderSheet(seen, visible) == IF seen THEN visible ELSE TRUE
AfterCloseOrderSheet(seen, visible) == IF ~seen THEN visible ELSE FALSE

OpenOrderSheet ==
  /\ Step
  /\ orderSheetVisible' = AfterOpenOrderSheet(rendered.orderSheetVisible, orderSheetVisible)
  /\ lastOp' = Op("openOrderSheet", "")
  /\ UNCHANGED <<isTelegram, hostVars, backend, chromeVars, storeListVars, selectedStore, selectedCategoryId, productsByCategory,
                 productEmptyMessage, cart, currency, isSubmitting, toastVars,
                 rendered, fetches, submits>>

\* Variant of CloseOrderSheet that drops the outstanding submissions.
CloseOrderSheetCancelling ==
  /\ Step
  /\ orderSheetVisible' = AfterCloseOrderSheet(rendered.orderSheetVisible, orderSheetVisible)
  /\ lastOp' = Op("closeOrderSheet", "")
  /\ submits' = << >>
  /\ isSubmitting' = FALSE
  /\ UNCHANGED <<isTelegram, hostVars, backend, chromeVars, storeListVars, selectedStore, selectedCategoryId,
                 productsByCategory, productEmptyMessage, cart, currency, toastVars,
                 rendered, fetches>>

\* closeOrderSheet
CloseOrderSheet ==
  /\ Step
  /\ orderSheetVisible' = AfterCloseOrderSheet(rendered.orderSheetVisible, orderSheetVisible)
  /\ lastOp' = Op("closeOrderSheet", "")
  /\ UNCHANGED <<isTelegram, hostVars, backend, chromeVars, storeListVars, selectedStore, selectedCategoryId, productsByCategory,
                 productEmptyMessage, cart, currency, isSubmitting, toastVars,
                 rendered, fetches, submits>>

\* --------------------------------------------------------- host buttons
\* Variant of BackButtonClick that leaves the store view before it closes
\* the order sheet.
BackButtonClickExitFirst ==
  /\ isTelegram
  /\ Step
  /\ lastOp' = Op("backButtonClick", "")
  /\ IF rendered.selectedStore # Null
     THEN /\ ExitStoreViewEffect
          /\ UNCHANGED orderSheetVisible
     ELSE IF rendered.orderSheetVisible
     THEN /\ orderSheetVisible' = AfterCloseOrderSheet(rendered.orderSheetVisible,
                                                       orderSheetVisible)
          /\ UNCHANGED <<selectedStore, selectedCategoryId, productsByCategory,
                         cart, currency>>
     ELSE UNCHANGED <<selectedStore, selectedCategoryId, productsByCategory,
                      cart, currency, orderSheetVisible>>
  /\ UNCHANGED <<isTelegram, hostVars, backend, chromeVars, storeListVars, productEmptyMessage, isSubmitting, toastVars,
                 rendered, fetches, submits>>

\* backButton.onClick subscription
BackButtonClick ==
  /\ isTelegram
  /\ Step
  /\ lastOp' = Op("backButtonClick", "")
  /\ IF rendered.orderSheetVisible
     THEN /\ orderSheetVisible' = AfterCloseOrderSheet(rendered.orderSheetVisible,
                                                       orderSheetVisible)
          /\ UNCHANGED <<selectedStore, selectedCategoryId, productsByCategory,
                         cart, currency>>
     ELSE IF rendered.selectedStore # Null
     THEN /\ ExitStoreViewEffect
          /\ UNCHANGED orderSheetVisible
     ELSE UNCHANGED <<selectedStore, selectedCategoryId, productsByCategory,
                      cart, currency, orderSheetVisible>>
  /\ UNCHANGED <<isTelegram, hostVars, backend, chromeVars, storeListVars, productEmptyMessage, isSubmitting, toastVars,
                 rendered, fetches, submits>>

\* mainButton.onClick subscription
MainButtonClick ==
  /\ isTelegram
  /\ Step
  /\ lastOp' = Op("mainButtonClick", "")
  /\ orderSheetVisible' =
       IF Len(rendered.cart) > 0
       THEN AfterOpenOrderSheet(rendered.orderSheetVisible, orderSheetVisible)
       ELSE orderSheetVisible
  /\ UNCHANGED <<isTelegram, hostVars, backend, chromeVars, storeListVars, selectedStore, selectedCategoryId, productsByCategory,
                 productEmptyMessage, cart, currency, isSubmitting, toastVars,
                 rendered, fetches, submits>>

\* onClick of the "Stores" button of the menu view
\* Variant of BackToStoresClick that leaves the store view without closing
\* the order sheet.
BackToStoresClickKeepSheet ==
  /\ Step
  /\ lastOp' = Op("backToStoresClick", "")
  /\ orderSheetVisible' = orderSheetVisible
  /\ ExitStoreViewEffect
  /\ UNCHANGED <<isTelegram, hostVars, backend, chromeVars, storeListVars, productEmptyMessage, isSubmitting, toastVars,
                 rendered, fetches, submits>>

\* The onClick of the "Stores" button of the menu view.
BackToStoresClick ==
  /\ Step
  /\ lastOp' = Op("backToStoresClick", "")
  /\ orderSheetVisible' =
       IF rendered.orderSheetVisible
       THEN AfterCloseOrderSheet(rendered.orderSheetVisible, orderSheetVisible)
       ELSE orderSheetVisible
  /\ ExitStoreViewEffect
  /\ UNCHANGED <<isTelegram, hostVars, backend, chromeVars, storeListVars, productEmptyMessage, isSubmitting, toastVars,
                 rendered, fetches, submits>>

\* onClick of the "About" button of the menu view
StoreInfoClick ==
  /\ rendered.selectedStore # Null
  /\ Step
  /\ lastOp' = [op |-> "storeInfoClick", arg |-> "", n |-> pendingTimers]
  /\ SetToastChannel(ShowToast(ToastChannel, AboutStore))
  /\ UNCHANGED <<isTelegram, hostVars, backend, chromeVars, storeListVars, stateVars, rendered, fetches, submits>>

\* ------------------------------------------------------------ submission
\* Variant of SubmitOrder without the check for an empty line list.
SubmitOrderAnyLines ==
  /\ Step
  /\ lastOp' = Op("submitOrder", "")
  /\ IF rendered.isSubmitting
     THEN UNCHANGED <<isSubmitting, toastVars, submits>>
     ELSE /\ Len(submits) < MaxInFlight
          /\ isSubmitting' = TRUE
          /\ submits' = Append(submits,
                          [lines |-> OrderLines(rendered.cart),
                           store |-> rendered.selectedStore,
                           email |-> BuildPseudoEmail(telegramUser, now),
                           headers |-> RequestHeaders(rawInitData),
                           orderSheetVisible |-> rendered.orderSheetVisible])
          /\ UNCHANGED toastVars
  /\ UNCHANGED <<isTelegram, hostVars, backend, chromeVars, storeListVars, selectedStore, selectedCategoryId, productsByCategory,
                 productEmptyMessage, cart, currency, orderSheetVisible,
                 rendered, fetches>>

\* submitOrder up to its await.
SubmitOrder ==
  /\ Step
  /\ lastOp' = Op("submitOrder", "")
  /\ IF rendered.isSubmitting
     THEN UNCHANGED <<isSubmitting, toastVars, submits>>
     ELSE IF Len(OrderLines(rendered.cart)) = 0
     THEN /\ SetToastChannel(ShowToast(ToastChannel, NothingToSubmit))
          /\ UNCHANGED <<isSubmitting, submits>>
     ELSE /\ Len(submits) < MaxInFlight
          /\ isSubmitting' = TRUE
          /\ submits' = Append(submits,
                          [lines |-> OrderLines(rendered.cart),
                           store |-> rendered.selectedStore,
                           email |-> BuildPseudoEmail(telegramUser, now),
                           headers |-> RequestHeaders(rawInitData),
                           orderSheetVisible |-> rendered.orderSheetVisible])
          /\ UNCHANGED toastVars
  /\ UNCHANGED <<isTelegram, hostVars, backend, chromeVars, storeListVars, selectedStore, selectedCategoryId, productsByCategory,
                 productEmptyMessage, cart, currency, orderSheetVisible,
                 rendered, fetches>>

\* What happens to the follow-up link of a successful checkoutCreate:
\* none returned; openLink succeeds; openLink throws and window.open
\* succeeds; openLink and window.open both throw.
LinkOutcomes == {"noLink", "opened", "openedInWindow", "failed"}

\* Variant of SubmitOrderSucceeded in which the error of a link that cannot
\* be opened leaves submitOrder before isSubmitting is reset.
SubmitOrderSucceededLinkEscapes(k, link, message) ==
  /\ k \in 1..Len(submits)
  /\ Step
  /\ lastOp' = Op("submitOrderSucceeded", link)
  /\ submits' = RemoveAt(submits, k)
  /\ orderSheetVisible' = AfterCloseOrderSheet(submits[k].orderSheetVisible,
                                               orderSheetVisible)
  /\ ResetCart
  /\ SetToastChannel(ShowToast(ToastChannel, OrderCreated))
  /\ isSubmitting' = IF link = "failed" THEN isSubmitting ELSE FALSE
  /\ UNCHANGED <<isTelegram, hostVars, backend, chromeVars, storeListVars, selectedStore, selectedCategoryId, productsByCategory,
                 productEmptyMessage, rendered, fetches>>

\* submitOrder resumes with a result without errors.
SubmitOrderSucceeded(k, link, message) ==
  /\ k \in 1..Len(submits)
  /\ Step
  /\ lastOp' = Op("submitOrderSucceeded", link)
  /\ submits' = RemoveAt(submits, k)
  /\ orderSheetVisible' = AfterCloseOrderSheet(submits[k].orderSheetVisible,
                                               orderSheetVisible)
  /\ ResetCart
  /\ SetToastChannel(
       IF link = "failed"
       THEN ShowToast(ShowToast(ToastChannel, OrderCreated), SubmissionFailed(message))
       ELSE ShowToast(ToastChannel, OrderCreated))
  /\ isSubmitting' = FALSE
  /\ UNCHANGED <<isTelegram, hostVars, backend, chromeVars, storeListVars, selectedStore, selectedCategoryId, productsByCategory,
                 productEmptyMessage, rendered, fetches>>

\* Variant of SubmitOrderFailed that also closes the order sheet and clears
\* the cart.
SubmitOrderFailedClearing(k, message) ==
  /\ k \in 1..Len(submits)
  /\ Step
  /\ lastOp' = Op("submitOrderFailed", message)
  /\ submits' = RemoveAt(submits, k)
  /\ SetToastChannel(ShowToast(ToastChannel, SubmissionFailed(message)))
  /\ isSubmitting' = FALSE
  /\ orderSheetVisible' = FALSE
  /\ ResetCart
  /\ UNCHANGED <<isTelegram, hostVars, backend, chromeVars, storeListVars, selectedStore, selectedCategoryId, productsByCategory,
                 productEmptyMessage, rendered, fetches>>

\* submitOrder resumes in its catch block: the request threw (message), or
\* the result carried a checkout error list (CheckoutError(message)).
SubmitOrderFailed(k, message) ==
  /\ k \in 1..Len(submits)
  /\ Step
  /\ lastOp' = Op("submitOrderFailed", message)
  /\ submits' = RemoveAt(submits, k)
  /\ SetToastChannel(ShowToast(ToastChannel, SubmissionFailed(message)))
  /\ isSubmitting' = FALSE
  /\ UNCHANGED <<isTelegram, hostVars, backend, chromeVars, storeListVars, selectedStore, selectedCategoryId, productsByCategory,
                 productEmptyMessage, cart, currency, orderSheetVisible,
                 rendered, fetches>>

SubmitErrors == ErrorMessages \cup { CheckoutError(m) : m \in CheckoutErrorMessages }

\* --------------------------------------------------------------- clock
\* Time passes between two callbacks: Date.now() reads a later value.
Tick ==
  /\ now < MaxClock
  /\ now' = now + 1
  /\ UNCHANGED <<isTelegram, telegramUser, rawInitData, backend, stateVars, toastVars,
                 chromeVars, storeListVars, rendered, unrendered, fetches, submits, lastOp>>

\* ------------------------------------------------------------- behaviour
CartStep == \E p \in Products, q \in Quantities : UpdateCart(p, q)
\* The quantity counter and the Add button of the two products of store A.
MenuProducts == { ToProduct(n) : n \in SeqToSet(Nodes("A")) }
MenuStep == \E p \in MenuProducts, q \in 0..1 : UpdateCart(p, q)
\* The quantity counter and the Add button of the first product of store A.
FirstProductStep == \E q \in 0..1 : UpdateCart(ToProduct(Nodes("A")[1]), q)
SelectStep == \E s \in StoreIds : SelectStore(s)
CatalogStep ==
  \/ \E s \in StoreIds : LoadStoreProductsDone(s)
  \/ \E s \in StoreIds, m \in ErrorMessages : LoadStoreProductsFailed(s, m)
CompletionStep ==
  \/ \E k \in 1..MaxInFlight, l \in LinkOutcomes, m \in ErrorMessages :
       SubmitOrderSucceeded(k, l, m)
  \/ \E k \in 1..MaxInFlight, m \in SubmitErrors : SubmitOrderFailed(k, m)

Next ==
  \/ Tick
  \/ CartStep
  \/ SelectStep
  \/ CatalogStep
  \/ ExitStoreView
  \/ \E i \in 1..2 : SelectCategory(i)
  \/ OpenOrderSheet
  \/ CloseOrderSheet
  \/ BackButtonClick
  \/ MainButtonClick
  \/ BackToStoresClick
  \/ StoreInfoClick
  \/ SubmitOrder
  \/ CompletionStep
  \/ ToastExpire
  \/ Render

Spec == Init /\ [][Next]_vars

\* Cart, order sheet and submission.
NextOrder ==
  \/ MenuStep
  \/ ExitStoreView
  \/ OpenOrderSheet
  \/ CloseOrderSheet
  \/ MainButtonClick
  \/ SubmitOrder
  \/ CompletionStep
  \/ Render

SpecOrder == Init /\ [][NextOrder]_vars

\* Store selection, catalog loading and navigation.
NextStore ==
  \/ FirstProductStep
  \/ SelectStep
  \/ CatalogStep
  \/ ExitStoreView
  \/ \E i \in 1..2 : SelectCategory(i)
  \/ OpenOrderSheet
  \/ CloseOrderSheet
  \/ BackButtonClick
  \/ BackToStoresClick
  \/ Render

SpecStore == Init /\ [][NextStore]_vars

\* Submission with its completions: every response that has arrived is
\* eventually handled, and React eventually renders after a state update.
NextSubmit ==
  \/ FirstProductStep
  \/ SubmitOrder
  \/ CompletionStep
  \/ Render

SpecSubmitFair ==
  /\ Init
  /\ [][NextSubmit]_vars
  /\ SF_vars(CompletionStep)
  /\ WF_vars(Render)

\* The store list loaded at mount, with store selection on top of it.
LoadStoresStep ==
  \/ \E l \in StoreLists : LoadStoresDone(l)
  \/ LoadStoresFailed

NextStoreList ==
  \/ LoadStoresStep
  \/ SelectStep
  \/ CatalogStep
  \/ ExitStoreView
  \/ Render

SpecStoreList == Init /\ [][NextStoreList]_vars

\* Submission across store changes: a store is left and another one
\* selected while a request is outstanding.
\* The Add button of the first product of each store.
AddProductStep == \E s \in StoreIds : UpdateCart(ToProduct(Nodes(s)[1]), 1)

NextResubmit ==
  \/ AddProductStep
  \/ SelectStep
  \/ ExitStoreView
  \/ SubmitOrder
  \/ CompletionStep
  \/ Render

SpecResubmit == Init /\ [][NextResubmit]_vars

\* The host buttons and the operations of the session, inside and outside
\* the host.
NextHost ==
  \/ FirstProductStep
  \/ SelectStep
  \/ OpenOrderSheet
  \/ CloseOrderSheet
  \/ SubmitOrder
  \/ BackButtonClick
  \/ MainButtonClick
  \/ Render

SpecHost == Init /\ [][NextHost]_vars

\* Catalog loading over every response of store A: the mapping of product
\* nodes to categories and product snapshots.
InitCatalog ==
  /\ InitLaunch
  /\ InitSession
  /\ ~isTelegram
  /\ mainButton.isEnabled
  /\ backend \in { [s \in StoreIds |-> IF s = "A" THEN l ELSE Nodes(s)] : l \in NodeLists }

NextCatalog ==
  \/ SelectStore("A")
  \/ LoadStoreProductsDone("A")
  \/ Render

SpecCatalog == InitCatalog /\ [][NextCatalog]_vars

\* Building the order lines: submitOrder on carts of every product and
\* quantity.
QuantityStep == \E p \in MenuProducts, q \in 0..MaxQty : UpdateCart(p, q)

NextLines ==
  \/ QuantityStep
  \/ SubmitOrder
  \/ Render

SpecLines == Init /\ [][NextLines]_vars

\* Cart updates with product snapshots that change between catalog loads:
\* the first product of store A as in the fixtures and as a later response
\* returns it, with its variants in the other order, and the second
\* product of store A.
RepricedFirstProduct ==
  ToProduct([Nodes("A")[1] EXCEPT !.variants = <<@[2], @[1]>>])

SnapshotProducts == MenuProducts \cup {RepricedFirstProduct}

SnapshotStep == \E p \in SnapshotProducts, q \in 0..MaxQty : UpdateCart(p, q)

NextSnapshot ==
  \/ SnapshotStep
  \/ Render

SpecSnapshot == Init /\ [][NextSnapshot]_vars

\* The launch data of every session: each user info and init data the host
\* may give, with orders of the first product of store A submitted at
\* different times.
InitIdentity ==
  /\ telegramUser \in Users \cup {NoUser}
  /\ rawInitData \in InitDatas
  /\ now = 1
  /\ InitSession
  /\ ~isTelegram
  /\ mainButton.isEnabled
  /\ backend = [s \in StoreIds |-> Nodes(s)]

NextIdentity ==
  \/ Tick
  \/ FirstProductStep
  \/ SubmitOrder
  \/ CompletionStep
  \/ Render

SpecIdentity == InitIdentity /\ [][NextIdentity]_vars

\* The requests of a session with and without init data: the store list
\* at mount, the catalog of a selected store and the order of its first
\* product.
InitRequests ==
  /\ telegramUser = [id |-> 7, username |-> "ann"]
  /\ rawInitData \in InitDatas
  /\ now = 1
  /\ InitSession
  /\ mainButton.isEnabled
  /\ backend = [s \in StoreIds |-> Nodes(s)]

NextRequests ==
  \/ SelectStore("A")
  \/ LoadStoreProductsDone("A")
  \/ FirstProductStep
  \/ SubmitOrder
  \/ CompletionStep
  \/ Render

SpecRequests == InitRequests /\ [][NextRequests]_vars

\* The notification channel: the callbacks that post a message and the
\* timeout that hides it.
NextToast ==
  \/ SelectStep
  \/ CatalogStep
  \/ ExitStoreView
  \/ StoreInfoClick
  \/ SubmitOrder
  \/ ToastExpire
  \/ Render

SpecToast == Init /\ [][NextToast]_vars

\* The notification channel with timeouts that fire: a timeout that is
\* pending runs its callback after its duration.
NextExpiry ==
  \/ SelectStore("A")
  \/ \E m \in ErrorMessages : LoadStoreProductsFailed("A", m)
  \/ StoreInfoClick
  \/ SubmitOrder
  \/ ToastExpire
  \/ Render

SpecExpiryFair == Init /\ [][NextExpiry]_vars /\ WF_vars(ToastExpire)

\* The session as the user drives it: every click is handled by the
\* callbacks of a render that has seen all earlier updates, and only
\* controls that the render displays are clicked. The stores view and the
\* menu view are displayed in turn (the "view--active" class follows
\* selectedStore); the controls of the order sheet when it is visible.
Displayed == unrendered = 0

\* The products of the rendered menu and of the rendered order lines.
DisplayedProducts ==
  UNION { SeqToSet(rendered.productsByCategory[i].products) :
            i \in 1..Len(rendered.productsByCategory) }
    \cup { rendered.cart[i].product : i \in 1..Len(rendered.cart) }

StoreCardClick ==
  /\ Displayed
  /\ rendered.selectedStore = Null
  /\ SelectStore("A")

\* The catalog request of store A resolves or fails.
MenuLoaded ==
  \/ LoadStoreProductsDone("A")
  \/ LoadStoreProductsFailed("A", "")

\* The checkoutCreate request resolves without a follow-up link, or fails.
CheckoutReturned ==
  \E k \in 1..MaxInFlight :
    \/ SubmitOrderSucceeded(k, "noLink", "")
    \/ SubmitOrderFailed(k, "")

ProductClick ==
  /\ Displayed
  /\ rendered.selectedStore # Null
  /\ \E p \in DisplayedProducts, q \in 0..1 : UpdateCart(p, q)

MiniCartClick ==
  /\ Displayed
  /\ rendered.selectedStore # Null
  /\ Len(rendered.cart) > 0
  /\ OpenOrderSheet

SheetCloseClick ==
  /\ Displayed
  /\ rendered.orderSheetVisible
  /\ CloseOrderSheet

SheetSubmitClick ==
  /\ Displayed
  /\ rendered.orderSheetVisible
  /\ SubmitOrder

MenuBackClick ==
  /\ Displayed
  /\ rendered.selectedStore # Null
  /\ BackToStoresClick

HostBackClick ==
  /\ Displayed
  /\ backButton
  /\ BackButtonClick

HostMainClick ==
  /\ Displayed
  /\ mainButton.isVisible
  /\ MainButtonClick

NextClicks ==
  \/ StoreCardClick
  \/ MenuLoaded
  \/ ProductClick
  \/ MiniCartClick
  \/ SheetCloseClick
  \/ SheetSubmitClick
  \/ CheckoutReturned
  \/ MenuBackClick
  \/ HostBackClick
  \/ HostMainClick
  \/ Render

InitClicks == Init /\ mainButton.isEnabled

SpecClicks == InitClicks /\ [][NextClicks]_vars

\* The category tabs while catalogs are loaded, replaced and cleared: the
\* store cards, the tabs of the displayed catalog and the "Stores" button.
AnyStoreCardClick ==
  /\ Displayed
  /\ rendered.selectedStore = Null
  /\ SelectStep

CategoryTabClick ==
  /\ Displayed
  /\ rendered.selectedStore # Null
  /\ \E i \in 1..Len(rendered.productsByCategory) : SelectCategory(i)

NextCategories ==
  \/ AnyStoreCardClick
  \/ CatalogStep
  \/ CategoryTabClick
  \/ MenuBackClick
  \/ Render

SpecCategories == InitClicks /\ [][NextCategories]_vars

\* The cart store: quantity updates with every product and quantity, and
\* the reset of the cart.
NextCart ==
  \/ CartStep
  \/ ExitStoreView
  \/ Render

SpecCart == Init /\ [][NextCart]_vars

\* ------------------------------------------------------------ properties
CategoryIds(cats) == { cats[i].id : i \in 1..Len(cats) }

\* C1: after any sequence of quantity updates every cart entry has
\* quantity >= 1, and an update with quantity <= 0 leaves no entry for the
\* product identity it was given.
C1_QuantityAtLeastOne ==
  /\ \A i \in 1..Len(cart) : cart[i].quantity >= 1
  /\ (lastOp.op = "updateCart" /\ lastOp.n <= 0) => EntryIndex(cart, lastOp.arg) = 0

\* An update with quantity <= 0 has just removed an entry that was in the
\* cart at the last render, and other entries remain.
C1_Witness ==
  /\ lastOp.op = "updateCart"
  /\ lastOp.n <= 0
  /\ unrendered = 1
  /\ EntryIndex(rendered.cart, lastOp.arg) > 0
  /\ Len(cart) > 0

\* C2: at most one checkoutCreate request is outstanding at any time, also
\* when submitOrder is invoked twice before a render made the isSubmitting
\* flag of the first invocation visible to the callback.
C2_SingleSubmission == Len(submits) <= 1

\* C3: the failure completion of a submission sets isSubmitting to false
\* and shows the failure message with the error text, and leaves the cart,
\* the inferred currency and the order-sheet visibility as they were.
C3_FailureKeepsCartAndSheet ==
  [][lastOp'.op = "submitOrderFailed" =>
       /\ isSubmitting' = FALSE
       /\ toast' = [message |-> SubmissionFailed(lastOp'.arg), visible |-> TRUE]
       /\ cart' = cart
       /\ currency' = currency
       /\ orderSheetVisible' = orderSheetVisible]_vars

\* A submission has just failed with a non-empty cart and the sheet open.
C3_Witness ==
  /\ lastOp.op = "submitOrderFailed"
  /\ Len(cart) > 0
  /\ orderSheetVisible
  /\ ~isSubmitting
  /\ toast.visible

\* C4: once the completion of a successful submission has been applied the
\* order sheet is closed, the cart is empty with no inferred currency,
\* isSubmitting is false and the confirmation is the visible message.
C4_SuccessOutcome ==
  lastOp.op = "submitOrderSucceeded" =>
    /\ ~orderSheetVisible
    /\ cart = << >>
    /\ currency = Null
    /\ ~isSubmitting
    /\ toast = [message |-> OrderCreated, visible |-> TRUE]

\* C5: right after selectStore, before its catalog request has resolved,
\* the cart is empty and the inferred currency is unset.
C5_SelectStoreResetsCart ==
  lastOp.op = "selectStore" =>
    /\ cart = << >>
    /\ currency = Null
    /\ selectedStore = lastOp.arg
    /\ fetches[lastOp.arg] > 0

\* selectStore has just run on a cart that held entries and a currency at
\* the last render.
C5_Witness ==
  /\ lastOp.op = "selectStore"
  /\ unrendered = 1
  /\ Len(rendered.cart) > 0
  /\ rendered.currency # Null

\* C6: a back-button click handled by the subscription of the current
\* render closes an open order sheet and leaves store, catalog, category
\* and cart alone; with the sheet closed in a store view it exits the store
\* view; with the sheet closed and no store selected it changes nothing.
C6_BackClickPrecedence ==
  [][lastOp'.op = "backButtonClick" =>
       /\ (orderSheetVisible /\ rendered.orderSheetVisible /\ selectedStore # Null) =>
            /\ orderSheetVisible' = FALSE
            /\ UNCHANGED <<selectedStore, selectedCategoryId, productsByCategory,
                           cart, currency>>
       /\ (~orderSheetVisible /\ ~rendered.orderSheetVisible
             /\ selectedStore # Null /\ rendered.selectedStore # Null) =>
            /\ selectedStore' = Null
            /\ orderSheetVisible' = FALSE
       /\ (~orderSheetVisible /\ ~rendered.orderSheetVisible
             /\ selectedStore = Null /\ rendered.selectedStore = Null) =>
            UNCHANGED stateVars]_vars

\* A back-button click has just closed the sheet that was open at the last
\* render; the store is still selected and the cart still holds entries.
C6_Witness ==
  /\ lastOp.op = "backButtonClick"
  /\ unrendered = 1
  /\ rendered.orderSheetVisible
  /\ ~orderSheetVisible
  /\ selectedStore # Null
  /\ selectedStore = rendered.selectedStore
  /\ Len(cart) > 0
  /\ cart = rendered.cart

\* C7: no cart ever holds a product without a variant identity or without
\* a price.
C7_OnlyPurchasableInCart ==
  \A i \in 1..Len(cart) : Purchasable(cart[i].product)

\* C8: submitOrder invoked while no submission is outstanding and no cart
\* entry is purchasable issues no request, leaves isSubmitting false and
\* the cart and the order sheet alone, and shows "Nothing to submit".
C8_NothingToSubmit ==
  [][(/\ lastOp'.op = "submitOrder"
      /\ ~isSubmitting /\ ~rendered.isSubmitting
      /\ \A i \in 1..Len(cart) : ~Purchasable(cart[i].product)
      /\ rendered.cart = cart) =>
       /\ submits' = submits
       /\ isSubmitting' = FALSE
       /\ cart' = cart
       /\ currency' = currency
       /\ orderSheetVisible' = orderSheetVisible
       /\ toast' = [message |-> NothingToSubmit, visible |-> TRUE]]_vars

\* submitOrder has just run on a non-empty cart without purchasable entry.
C8_Witness ==
  /\ lastOp.op = "submitOrder"
  /\ unrendered = 1
  /\ Len(cart) > 0
  /\ rendered.cart = cart
  /\ \A i \in 1..Len(cart) : ~Purchasable(cart[i].product)
  /\ ~rendered.isSubmitting
  /\ submits = << >>
  /\ toast.message = NothingToSubmit

\* C9: selectStore enters the store view at once, and the failure of its
\* catalog request leaves the selected store in place with an empty
\* catalog, no active category, the "unable to load" empty message and a
\* visible error notification.
C9_CatalogFailure ==
  [][/\ lastOp'.op = "selectStore" => selectedStore' = lastOp'.arg
     /\ lastOp'.op = "loadStoreProductsFailed" =>
          /\ selectedStore' = selectedStore
          /\ productsByCategory' = << >>
          /\ selectedCategoryId' = Null
          /\ productEmptyMessage' = UnableProductEmpty
          /\ toast'.visible
          /\ \E m \in ErrorMessages : toast'.message = LoadProductsFailed(m)
          /\ fetches'[lastOp'.arg] = fetches[lastOp'.arg] - 1]_vars

\* The catalog request of the selected store has just failed while a
\* catalog was on display at the last render.
C9_Witness ==
  /\ lastOp.op = "loadStoreProductsFailed"
  /\ selectedStore = lastOp.arg
  /\ unrendered = 1
  /\ Len(rendered.productsByCategory) > 0
  /\ productsByCategory = << >>
  /\ TotalFetches = 0

\* C10: once no catalog request is outstanding, the catalog and the active
\* category are those of the selected store (or empty after a failure),
\* and empty when no store is selected.
C10_CatalogOfSelectedStore ==
  TotalFetches = 0 =>
    /\ selectedStore = Null => (productsByCategory = << >> /\ selectedCategoryId = Null)
    /\ selectedStore # Null =>
         /\ productsByCategory \in {<< >>, CatalogOf(selectedStore)}
         /\ selectedCategoryId \in CategoryIds(productsByCategory) \cup {Null}

\* The entries of cart c that carry a price, by position.
PricedEntries(c) == { i \in 1..Len(c) : c[i].product.priceAmount # NullAmount }

\* Sum of quantity * Weight over the entries of c at the positions in S,
\* where the weight is the unit price (byPrice) or 1.
RECURSIVE SumOver(_, _, _)
SumOver(c, S, byPrice) ==
  IF S = {} THEN 0
  ELSE LET i == CHOOSE j \in S : TRUE
       IN c[i].quantity * (IF byPrice THEN c[i].product.priceAmount ELSE 1)
          + SumOver(c, S \ {i}, byPrice)

\* C11: in every reachable state the item count of the cart summary is the
\* sum of the quantities of the entries with a non-null price, and its
\* total amount is the sum of price * quantity over those entries; entries
\* without a price add to neither.
C11_SummaryCountsPricedEntries ==
  /\ SummarizeCart(cart, currency).items = SumOver(cart, PricedEntries(cart), FALSE)
  /\ SummarizeCart(cart, currency).total.amount = SumOver(cart, PricedEntries(cart), TRUE)

\* The cart holds two priced entries and one without a price, one of them
\* with a quantity above one.
C11_Witness ==
  /\ Len(cart) = 3
  /\ Cardinality(PricedEntries(cart)) = 2
  /\ \E i \in 1..Len(cart) : cart[i].quantity > 1
  /\ SummarizeCart(cart, currency).items > 2

C13_SummaryCurrencyIsLatest ==
  (/\ lastOp.op = "updateCart"
   /\ lastOp.n > 0
   /\ EntryIndex(cart, lastOp.arg) \in PricedEntries(cart)) =>
    SummarizeCart(cart, currency).total.currency =
      cart[EntryIndex(cart, lastOp.arg)].product.priceCurrency

\* C14: in every reachable state an empty cart implies that the inferred
\* currency is unset, also when the last entry was removed by a quantity
\* update to 0.
C14_EmptyCartHasNoCurrency == cart = << >> => currency = Null

\* C15: inside the host, after the main-button sync that follows a change
\* of cart or currency, the main button is hidden exactly when the summary
\* of the rendered cart has item count 0; when shown it is enabled and its
\* label is the review-order text with the formatted total of that cart.
C15_MainButtonProjection ==
  isTelegram =>
    LET priced == PricedEntries(rendered.cart)
        total == [amount |-> SumOver(rendered.cart, priced, TRUE),
                  currency |-> SummarizeCart(rendered.cart, rendered.currency).total.currency]
    IN /\ mainButton.isVisible <=> SumOver(rendered.cart, priced, FALSE) # 0
       /\ mainButton.isVisible =>
            /\ mainButton.isEnabled
            /\ mainButton.text = <<"Review order", FormatMoney(total.amount, total.currency)>>

\* Inside the host a render has just synced the main button for a cart of
\* several entries, one of them without a price.
C15_Witness ==
  /\ isTelegram
  /\ lastOp.op = "render"
  /\ mainButton.isVisible
  /\ Len(cart) >= 2
  /\ PricedEntries(cart) # 1..Len(cart)
  /\ mainButton.text[2][1] > 5

\* C16: inside the host, after the visibility sync that follows a change of
\* the selected store or of the order-sheet visibility, the back button is
\* visible exactly when a store is selected or the order sheet is open.
C16_BackButtonProjection ==
  isTelegram =>
    (backButton <=> (rendered.selectedStore # Null \/ rendered.orderSheetVisible))

\* Inside the host a render has just synced the back button while no store
\* is selected and the order sheet is open.
C16_Witness ==
  /\ isTelegram
  /\ lastOp.op = "render"
  /\ selectedStore = Null
  /\ orderSheetVisible
  /\ backButton

\* C17: the notification channel has a single slot: a showToast while a
\* message is visible replaces the message and clears the earlier timeout,
\* so at most one timeout is pending at any time, it is the one of the
\* message shown last, a visible message always has its own timeout
\* pending, and no timeout of an earlier message ever runs.
C17_SingleToastTimer ==
  /\ pendingTimers <= 1
  /\ EarlierTimers = 0
  /\ toast.visible => toastTimerRef = "pending"
  /\ lastOp.op = "toastExpire" => lastOp.arg = "referenced"

\* The store-info message has just replaced another message that was still
\* visible with its timeout pending, and one timeout is pending now.
C17_Witness ==
  /\ lastOp.op = "storeInfoClick"
  /\ lastOp.n = 1
  /\ toast = [message |-> AboutStore, visible |-> TRUE]
  /\ pendingTimers = 1

\* C18: every submission that is in flight returns to idle once its
\* request has resolved, whatever the outcome: with responses that are
\* eventually handled, isSubmitting never stays true forever.
C18_InFlightReturnsToIdle == isSubmitting ~> ~isSubmitting

\* A submission has just returned to idle through the failure of opening
\* the follow-up link, and no request is outstanding.
C18_Witness ==
  /\ lastOp.op = "submitOrderSucceeded"
  /\ lastOp.arg = "failed"
  /\ ~isSubmitting
  /\ submits = << >>

\* C19: exitStoreView leaves no selected store, an empty cart with the
\* inferred currency unset, an empty catalog and no active category.
C19_ExitStoreViewClears ==
  lastOp.op = "exitStoreView" =>
    /\ selectedStore = Null
    /\ cart = << >>
    /\ currency = Null
    /\ productsByCategory = << >>
    /\ selectedCategoryId = Null

\* exitStoreView has just run on a rendered store view with a loaded
\* catalog and an entry in the cart.
C19_Witness ==
  /\ lastOp.op = "exitStoreView"
  /\ unrendered = 1
  /\ rendered.selectedStore # Null
  /\ rendered.productsByCategory # << >>
  /\ rendered.cart # << >>

\* C20: openOrderSheet and closeOrderSheet change nothing when the sheet
\* already has the target visibility, and from a state with an empty cart
\* and a closed sheet no open request (openOrderSheet or a click of the
\* main button) opens the sheet.
C20_OpenSheetGated ==
  [][/\ (lastOp'.op = "openOrderSheet" /\ orderSheetVisible) => UNCHANGED stateVars
     /\ (lastOp'.op = "closeOrderSheet" /\ ~orderSheetVisible) => UNCHANGED stateVars
     /\ (/\ lastOp'.op \in {"openOrderSheet", "mainButtonClick"}
         /\ cart = << >>
         /\ ~orderSheetVisible) => ~orderSheetVisible']_vars

\* C21: when a submission succeeded and a follow-up link was returned, a
\* failure while opening the link is swallowed: the cart stays cleared and
\* the notification on display is the confirmation, not a
\* submission-failure message.
C21_LinkFailureSwallowed ==
  [][(/\ lastOp'.op = "submitOrderSucceeded"
      /\ lastOp'.arg \in {"openedInWindow", "failed"}) =>
       /\ cart' = << >>
       /\ currency' = Null
       /\ toast' = [message |-> OrderCreated, visible |-> TRUE]]_vars

\* The three outcomes of the store-list load as the store view shows them.
StoreListOutcome ==
  IF stores # << >> /\ storeEmptyMessage = StoresLoaded THEN "loaded"
  ELSE IF stores = << >> /\ storeEmptyMessage = NoActiveStores THEN "noStores"
  ELSE IF stores = << >> /\ storeEmptyMessage = UnableToLoadStores THEN "failed"
  ELSE "none"

\* C22: once the store-list request of the mount has resolved, the store
\* view shows exactly one of three outcomes: stores and no message, no
\* stores and the no-stores message, or no stores and the unable-to-load
\* message; the loading message is gone; a failure posts no toast and
\* leaves the selected store, the cart and the store list as they were.
C22_StoreListOutcomes ==
  [][/\ storesFetch' = 0 =>
          /\ StoreListOutcome' \in {"loaded", "noStores", "failed"}
          /\ storeEmptyMessage' # LoadingStores
     /\ lastOp'.op = "loadStoresDone" =>
          StoreListOutcome' = (IF lastOp'.n = 0 THEN "noStores" ELSE "loaded")
     /\ lastOp'.op = "loadStoresFailed" =>
          /\ StoreListOutcome' = "failed"
          /\ UNCHANGED <<toastVars, stateVars>>]_vars

\* The store-list request has just failed while the loading message was
\* on display.
C22_Witness ==
  /\ lastOp.op = "loadStoresFailed"
  /\ storesFetch = 0
  /\ storeEmptyMessage = UnableToLoadStores
  /\ ~toast.visible

\* C23: closing the order sheet or exiting the store view while a
\* submission is in flight does not cancel it: the request stays
\* outstanding and isSubmitting stays set, and a completion that follows is
\* applied: it takes the request off, resets isSubmitting and shows the
\* outcome message.
C23_NoCancellation ==
  [][/\ lastOp'.op \in {"closeOrderSheet", "exitStoreView"} =>
          UNCHANGED <<submits, isSubmitting>>
     /\ (/\ lastOp.op \in {"closeOrderSheet", "exitStoreView"}
         /\ lastOp'.op \in {"submitOrderSucceeded", "submitOrderFailed"}) =>
          /\ Len(submits') = Len(submits) - 1
          /\ isSubmitting' = FALSE
          /\ toast'.visible
          /\ toast'.message \in {OrderCreated} \cup
               { SubmissionFailed(m) : m \in SubmitErrors \cup ErrorMessages }]_vars

\* The order sheet has just been closed while a submission was in flight,
\* and the request is still outstanding.
C23_Witness ==
  /\ lastOp.op = "closeOrderSheet"
  /\ rendered.orderSheetVisible
  /\ ~orderSheetVisible
  /\ rendered.isSubmitting
  /\ isSubmitting
  /\ Len(submits) = 1

\* C24: the successful completion of a submission made for a store the
\* user has left does not clear or modify the cart assembled for the store
\* that is selected now.
C24_CompletionKeepsNewCart ==
  [][(/\ lastOp'.op = "submitOrderSucceeded"
      /\ selectedStore # Null
      /\ \A k \in 1..Len(submits) : submits[k].store \notin {Null, selectedStore}
      /\ cart # << >>) =>
       /\ cart' = cart
       /\ currency' = currency]_vars

\* C25: outside the host no step changes the main button or the back
\* button and no click handler of a host button runs, while store
\* selection, cart updates, opening the order sheet and submission can
\* still be invoked.
C25_NoHostChromeOutsideHost ==
  [][~isTelegram =>
       /\ UNCHANGED chromeVars
       /\ lastOp'.op \notin {"backButtonClick", "mainButtonClick"}
       /\ (/\ unrendered < MaxUnrendered
           /\ Len(submits) < MaxInFlight
           /\ TotalFetches < MaxFetches) =>
            /\ ENABLED SelectStep
            /\ ENABLED FirstProductStep
            /\ ENABLED OpenOrderSheet
            /\ ENABLED SubmitOrder]_vars

\* Outside the host a render has just followed the opening of the order
\* sheet over a cart with a priced entry, and both host buttons are as
\* they were at mount.
C25_Witness ==
  /\ ~isTelegram
  /\ lastOp.op = "render"
  /\ orderSheetVisible
  /\ SummarizeCart(cart, currency).items > 0
  /\ ~mainButton.isVisible
  /\ ~backButton

\* The name with every upper-case letter replaced by its lower-case one.
LowerName(name) == [i \in 1..Len(name) |-> IF name[i] \in 65..90 THEN name[i] + 32 ELSE name[i]]

\* Lexicographic order on sequences of character codes.
LexLeq(a, b) ==
  \E k \in 0..Len(a) :
    /\ k <= Len(b)
    /\ \A i \in 1..k : a[i] = b[i]
    /\ k = Len(a) \/ (k < Len(b) /\ a[k + 1] < b[k + 1])

\* C26: when the catalog request for the selected store succeeds, the
\* active category becomes the category of the catalog whose display name
\* is first in case-insensitive lexicographic order, or none when the
\* response holds no products.
C26_FirstCategoryActive ==
  [][(lastOp'.op = "loadStoreProductsDone" /\ lastOp'.arg = selectedStore) =>
       IF backend[selectedStore] = << >>
       THEN selectedCategoryId' = Null
       ELSE \E i \in 1..Len(productsByCategory') :
              /\ selectedCategoryId' = productsByCategory'[i].id
              /\ \A j \in 1..Len(productsByCategory') :
                   LexLeq(LowerName(productsByCategory'[i].name),
                          LowerName(productsByCategory'[j].name))]_vars

\* The catalog of the selected store has just been loaded with the
\* category "Banana" fetched before the category "apple", and "apple" is
\* the active category.
C26_Witness ==
  /\ lastOp.op = "loadStoreProductsDone"
  /\ lastOp.arg = selectedStore
  /\ Len(productsByCategory) = 2
  /\ productsByCategory[1].name = NameBanana
  /\ productsByCategory[2].name = NameApple
  /\ selectedCategoryId = productsByCategory[2].id

\* The node of the response for store A that product snapshot p was built
\* from.
NodeOf(p) ==
  backend["A"][CHOOSE i \in 1..Len(backend["A"]) : backend["A"][i].id = p.id]

\* The product snapshots of the catalog on display.
CatalogProducts ==
  UNION { SeqToSet(productsByCategory[i].products) : i \in 1..Len(productsByCategory) }

\* C27: every product of a loaded catalog resolves to the first variant of
\* its node in backend order, whatever its stock or price (none without
\* variants); its price is that variant's price if it has one, else the
\* node's starting price range, else null; and it is purchasable exactly
\* when both the variant identity and the price are non-null.
C27_VariantAndPrice ==
  \A p \in CatalogProducts :
    LET node == NodeOf(p)
        first == IF node.variants = << >> THEN Null ELSE Head(node.variants).id
        price == IF node.variants # << >> /\ Head(node.variants).price.amount # NullAmount
                 THEN Head(node.variants).price
                 ELSE IF node.priceRange.amount # NullAmount
                 THEN node.priceRange
                 ELSE [amount |-> NullAmount, currency |-> Null]
    IN /\ p.variantId = first
       /\ p.priceAmount = price.amount
       /\ p.priceCurrency = price.currency
       /\ Purchasable(p) <=> (first # Null /\ price.amount # NullAmount)

\* The loaded catalog holds a product resolved to an out-of-stock first
\* variant with its price, and a product whose first variant is unpriced
\* and whose price comes from the price range.
C27_Witness ==
  /\ lastOp.op = "loadStoreProductsDone"
  /\ \E p \in CatalogProducts :
       /\ p.variantId = "va"
       /\ Head(NodeOf(p).variants).stock = 0
       /\ p.priceAmount = 5
  /\ \E p \in CatalogProducts :
       /\ p.variantId = "va"
       /\ Head(NodeOf(p).variants).price = NoPrice
       /\ p.priceAmount = 3
       /\ p.priceCurrency = "EUR"

\* The positions of the purchasable entries of cart c.
PurchasableEntries(c) == { i \in 1..Len(c) : Purchasable(c[i].product) }

\* C28: a submitOrder that sends a request on a rendered cart sends one
\* line (variantId, quantity) for each purchasable entry of the cart, with
\* the quantity of that entry, and no line for any other entry.
C28_LinesOfPurchasableEntries ==
  [][(/\ lastOp'.op = "submitOrder"
      /\ rendered.cart = cart
      /\ Len(submits') = Len(submits) + 1) =>
       LET lines == submits'[Len(submits')].lines
       IN /\ Len(lines) = Cardinality(PurchasableEntries(cart))
          /\ \A i \in PurchasableEntries(cart) :
               Cardinality({ k \in 1..Len(lines) :
                               lines[k] = [quantity |-> cart[i].quantity,
                                           variantId |-> cart[i].product.variantId] }) = 1
          /\ \A k \in 1..Len(lines) :
               \E i \in PurchasableEntries(cart) :
                 lines[k].variantId = cart[i].product.variantId]_vars

\* A request has just been sent for a rendered cart that holds a
\* purchasable entry of quantity two after an entry that is not
\* purchasable.
C28_Witness ==
  /\ lastOp.op = "submitOrder"
  /\ rendered.cart = cart
  /\ Len(cart) = 2
  /\ ~Purchasable(cart[1].product)
  /\ Purchasable(cart[2].product)
  /\ cart[2].quantity = 2
  /\ Len(submits) = 1
  /\ submits[1].lines = <<[quantity |-> 2, variantId |-> cart[2].product.variantId]>>

\* The entries of cart c for product identities other than pid.
OtherEntries(c, pid) == { c[i] : i \in { j \in 1..Len(c) : c[j].product.id # pid } }

\* C29: an update with quantity > 0 for product p leaves exactly one entry
\* for p's identity, equal to p's snapshot with the given quantity whatever
\* snapshot the cart held before, and leaves the entries of every other
\* identity as they were.
C29_UpsertFrame ==
  [][(lastOp'.op = "updateCart" /\ lastOp'.n > 0) =>
       /\ Cardinality({ i \in 1..Len(cart') : cart'[i].product.id = lastOp'.arg }) = 1
       /\ cart'[EntryIndex(cart', lastOp'.arg)] =
            [product |-> lastOp'.product, quantity |-> lastOp'.n]
       /\ OtherEntries(cart', lastOp'.arg) = OtherEntries(cart, lastOp'.arg)
       /\ Len(cart') = Cardinality(OtherEntries(cart, lastOp'.arg)) + 1]_vars

\* An update has just replaced the snapshot and the quantity of an entry
\* that was in the rendered cart, next to an entry of another product.
C29_Witness ==
  /\ lastOp.op = "updateCart"
  /\ lastOp.n > 0
  /\ unrendered = 1
  /\ Len(cart) = 2
  /\ EntryIndex(rendered.cart, lastOp.arg) > 0
  /\ rendered.cart[EntryIndex(rendered.cart, lastOp.arg)].product # lastOp.product
  /\ rendered.cart[EntryIndex(rendered.cart, lastOp.arg)].quantity # lastOp.n
  /\ cart[EntryIndex(cart, lastOp.arg)].product = lastOp.product

\* C30: the catalog on display is a partition of the response it was built
\* from: every product of the response is in exactly one category, the one
\* of its category reference, or the single "uncategorized" category when
\* it has no category reference; and no category is empty.
C30_GroupingIsPartition ==
  (lastOp.op = "loadStoreProductsDone") =>
    LET nodes == backend[lastOp.arg]
        cats == productsByCategory
        Holds(i, pid) == \E k \in 1..Len(cats[i].products) : cats[i].products[k].id = pid
    IN /\ \A n \in 1..Len(nodes) :
            /\ Cardinality({ i \in 1..Len(cats) : Holds(i, nodes[n].id) }) = 1
            /\ \A i \in 1..Len(cats) :
                 Holds(i, nodes[n].id) =>
                   /\ Cardinality({ k \in 1..Len(cats[i].products) :
                                      cats[i].products[k].id = nodes[n].id }) = 1
                   /\ cats[i].id = (IF nodes[n].category.id # Null
                                    THEN nodes[n].category.id
                                    ELSE "uncategorized")
       /\ \A i \in 1..Len(cats) :
            /\ cats[i].products # << >>
            /\ \A k \in 1..Len(cats[i].products) :
                 \E n \in 1..Len(nodes) : nodes[n].id = cats[i].products[k].id
       /\ \A i, j \in 1..Len(cats) : cats[i].id = cats[j].id => i = j

\* A catalog has just been loaded from a response of two products without
\* category reference, and it holds both in the one "uncategorized" category.
C30_Witness ==
  /\ lastOp.op = "loadStoreProductsDone"
  /\ Len(backend[lastOp.arg]) = 2
  /\ backend[lastOp.arg][1].category.id = Null
  /\ backend[lastOp.arg][2].category.id = Null
  /\ Len(productsByCategory) = 1
  /\ productsByCategory[1].id = "uncategorized"
  /\ Len(productsByCategory[1].products) = 2

\* C31: with host user info present, the buyer email of a submission does
\* not depend on when the submission is made: every submission in flight
\* carries the email a submission with the same user info carries at any
\* other reading of the clock.
C31_StableBuyerIdentity ==
  telegramUser # NoUser =>
    \A k \in 1..Len(submits) :
      \A t \in 1..MaxClock : submits[k].email = BuildPseudoEmail(telegramUser, t)

\* C32: the request of every backend call (the store list at mount, the
\* catalog of a selected store, the order submission) has the
\* Authorization header "tma <rawInitData>" when init data is present and
\* no Authorization header when it is absent; and the request is sent in
\* both cases.
C32_AuthHeaderIffInitData ==
  /\ [](/\ lastOp.op \in {"mount", "selectStore"} =>
             lastOp.headers.Authorization =
               (IF rawInitData # Null THEN "tma " \o rawInitData ELSE Null)
        /\ \A k \in 1..Len(submits) :
             submits[k].headers.Authorization =
               (IF rawInitData # Null THEN "tma " \o rawInitData ELSE Null)
        /\ lastOp.op = "mount" => storesFetch = 1)
  /\ [][/\ lastOp'.op = "selectStore" =>
             fetches'[lastOp'.arg] = fetches[lastOp'.arg] + 1
        /\ (/\ lastOp'.op = "submitOrder"
            /\ ~rendered.isSubmitting
            /\ Len(OrderLines(rendered.cart)) > 0) =>
             Len(submits') = Len(submits) + 1]_vars

\* Without init data, an order and a catalog request are outstanding and
\* the order's request has no Authorization header.
C32_Witness ==
  /\ rawInitData = Null
  /\ lastOp.op = "selectStore"
  /\ lastOp.headers = [ContentType |-> "application/json", Authorization |-> Null]
  /\ fetches["A"] > 0
  /\ Len(submits) > 0
  /\ submits[1].headers.Authorization = Null

\* C33: notifications expire: with timeouts that fire, a message that is
\* visible is eventually hidden; it never stays visible forever after the
\* last showToast.
C33_ToastEventuallyHidden == toast.visible ~> ~toast.visible

\* The timeout of the nothing-to-submit message has just run and hidden
\* the message, and no timeout is left.
C33_Witness ==
  /\ lastOp.op = "toastExpire"
  /\ lastOp.arg = "referenced"
  /\ toast = [message |-> NothingToSubmit, visible |-> FALSE]
  /\ toastTimerRef = "fired"
  /\ pendingTimers = 0

====
